---- MODULE Spec2Model ----
(***************************************************************************)
(* Signal engine of the gold/silver strategy dashboard (Strategy/app.py)   *)
(* together with the two data updaters that write the CSV files it reads   *)
(* (Strategy/update_data.py, Strategy/daily_update.py).                    *)
(*                                                                         *)
(* A data frame is a record of columns; a column is a sequence of cells    *)
(* indexed by the bar number 1..n (the sorted, unique date index).  A cell *)
(* is a float: either NaN or an exact rational.                            *)
(***************************************************************************)
EXTENDS Integers, Sequences, FiniteSets, TLC

\* ------------------------------------------------------------------ bounds
MaxBars == 5

\* thresholds of the K-line filter, 0.25 = 1/4 and 0.75 = 3/4
LowThreshNum == 1
HighThreshNum == 3
ThreshDen == 4

\* ------------------------------------------------------------ float cells
\* a cell <<n, d>> with d > 0 is the number n/d; <<0, 0>> is NaN
NaN == <<0, 0>>
IsNum(a) == a[2] # 0
Frac(n, d) == IF d > 0 THEN <<n, d>> ELSE <<0 - n, 0 - d>>
Num(n) == <<n, 1>>

\* arithmetic propagates NaN
Add(a, b) == IF IsNum(a) /\ IsNum(b)
             THEN Frac(a[1] * b[2] + b[1] * a[2], a[2] * b[2]) ELSE NaN
Sub(a, b) == IF IsNum(a) /\ IsNum(b)
             THEN Frac(a[1] * b[2] - b[1] * a[2], a[2] * b[2]) ELSE NaN
Mul(a, b) == IF IsNum(a) /\ IsNum(b) THEN Frac(a[1] * b[1], a[2] * b[2]) ELSE NaN
\* the divisions of the engine never see a zero divisor: 0 is replaced by NaN
\* first (replace(0, np.nan)), a window length is positive and so is a price
Div(a, b) == IF IsNum(a) /\ IsNum(b) /\ b[1] # 0
             THEN Frac(a[1] * b[2], a[2] * b[1]) ELSE NaN

\* every comparison with NaN is false, except != which is true
Gt(a, b) == IsNum(a) /\ IsNum(b) /\ a[1] * b[2] > b[1] * a[2]
Lt(a, b) == IsNum(a) /\ IsNum(b) /\ a[1] * b[2] < b[1] * a[2]
Ge(a, b) == IsNum(a) /\ IsNum(b) /\ a[1] * b[2] >= b[1] * a[2]
Le(a, b) == IsNum(a) /\ IsNum(b) /\ a[1] * b[2] =< b[1] * a[2]
Eq(a, b) == IsNum(a) /\ IsNum(b) /\ a[1] * b[2] = b[1] * a[2]
Ne(a, b) == ~Eq(a, b)

\* np.maximum / np.minimum: NaN if either argument is NaN
Maximum(a, b) == IF IsNum(a) /\ IsNum(b) THEN (IF Ge(a, b) THEN a ELSE b) ELSE NaN
Minimum(a, b) == IF IsNum(a) /\ IsNum(b) THEN (IF Le(a, b) THEN a ELSE b) ELSE NaN

\* Series.replace(0, np.nan) on one cell
ReplaceZero(a) == IF IsNum(a) /\ a[1] = 0 THEN NaN ELSE a

\* ---------------------------------------------------------------- columns
\* Series.shift(k) read at bar t: the value of k bars earlier, NaN for the
\* first k bars
At(s, t, k) == IF t - k >= 1 THEN s[t - k] ELSE NaN

RECURSIVE SumCells(_, _, _)
SumCells(s, lo, hi) == IF lo > hi THEN Num(0) ELSE Add(s[lo], SumCells(s, lo + 1, hi))

\* Series.rolling(window=w).mean(): min_periods defaults to w, so the mean is
\* NaN until w bars are available and whenever a NaN lies inside the window
RollingMean(s, w) ==
    [t \in 1..Len(s) |->
        IF t >= w /\ \A i \in (t - w + 1)..t : IsNum(s[i])
        THEN Div(SumCells(s, t - w + 1, t), Num(w)) ELSE NaN]

\* Series.diff(): NaN at the first bar, then the difference to the previous bar
Diff(s) == [t \in 1..Len(s) |-> IF t = 1 THEN NaN ELSE Sub(s[t], s[t - 1])]

\* ffill left out: a bar with no trigger keeps its NaN
FFillMissing(s) == s

\* Series.ffill(): a NaN cell takes the last non-NaN value before it, if any
RECURSIVE FFillAt(_, _)
FFillAt(s, t) == IF IsNum(s[t]) THEN s[t]
                 ELSE IF t = 1 THEN NaN ELSE FFillAt(s, t - 1)
FFill(s) == [t \in 1..Len(s) |-> FFillAt(s, t)]

\* Series.fillna(v)
FillNa(s, v) == [t \in 1..Len(s) |-> IF IsNum(s[t]) THEN s[t] ELSE v]

\* np.select([c1, c2], [1, 0], default=np.nan): the first true condition wins
Select(c1, c2) == [t \in 1..Len(c1) |->
                      IF c1[t] THEN Num(1) ELSE IF c2[t] THEN Num(0) ELSE NaN]

NBars(df) == Len(df.Close)

\* ------------------------------------------------------- StrategyEngine
\* run_double_ma with >= in place of >: a tie between the lines reads as Long
run_double_ma_tie_long(df, short_w, long_w) ==
    LET Line_Fast == RollingMean(df.Close, short_w)
        Line_Slow == RollingMean(df.Close, long_w)
        Signal    == [t \in 1..NBars(df) |-> IF Ge(Line_Fast[t], Line_Slow[t]) THEN Num(1) ELSE Num(0)]
        Position  == Diff(Signal)
    IN  [Close |-> df.Close, Line_Fast |-> Line_Fast, Line_Slow |-> Line_Slow,
         Signal |-> Signal, Position |-> Position]

\* run_double_ma, line 61-69: the frame it returns
run_double_ma(df, short_w, long_w) ==
    LET Line_Fast == RollingMean(df.Close, short_w)
        Line_Slow == RollingMean(df.Close, long_w)
        Signal    == [t \in 1..NBars(df) |-> IF Gt(Line_Fast[t], Line_Slow[t]) THEN Num(1) ELSE Num(0)]
        Position  == Diff(Signal)
    IN  [Close |-> df.Close, Line_Fast |-> Line_Fast, Line_Slow |-> Line_Slow,
         Signal |-> Signal, Position |-> Position]

\* run_escalator, line 75-79: the required columns the series lacks
missing_cols(df) == {c \in {"High", "Low"} : c \notin DOMAIN df}

\* run_escalator, line 87: (High.shift(1) - Low.shift(1)).replace(0, nan)
denom_cur(df) ==
    [t \in 1..NBars(df) |-> ReplaceZero(Sub(At(df.High, t, 1), At(df.Low, t, 1)))]

\* run_escalator, line 88
kl_range_cur(df) ==
    LET d == denom_cur(df)
    IN [t \in 1..NBars(df) |-> Div(Sub(At(df.Close, t, 1), At(df.Low, t, 1)), d[t])]

\* run_escalator, line 90: (High.shift(2) - Low.shift(3)).replace(0, nan)
denom_pre(df) ==
    [t \in 1..NBars(df) |-> ReplaceZero(Sub(At(df.High, t, 2), At(df.Low, t, 3)))]

\* run_escalator, line 91
kl_range_pre(df) ==
    LET d == denom_pre(df)
    IN [t \in 1..NBars(df) |-> Div(Sub(At(df.Close, t, 2), At(df.Low, t, 2)), d[t])]

LowThresh == Frac(LowThreshNum, ThreshDen)
HighThresh == Frac(HighThreshNum, ThreshDen)

\* the Buy trigger written with negated comparisons, which NaN satisfies
cond_buy_nan_passes(close, kl_max, range_pre, range_cur) ==
    Gt(close, kl_max) /\ ~Gt(range_pre, LowThresh) /\ ~Le(range_cur, HighThresh)

\* run_escalator, line 93-97, one bar
cond_buy(close, kl_max, range_pre, range_cur) ==
    Gt(close, kl_max) /\ Le(range_pre, LowThresh) /\ Gt(range_cur, HighThresh)

\* the Sell trigger with its three comparisons the wrong way round
cond_sell_inverted(close, kl_min, range_pre, range_cur) ==
    Gt(close, kl_min) /\ Le(range_pre, HighThresh) /\ Gt(range_cur, LowThresh)

\* run_escalator, line 99-103, one bar
cond_sell(close, kl_min, range_pre, range_cur) ==
    Lt(close, kl_min) /\ Ge(range_pre, HighThresh) /\ Lt(range_cur, LowThresh)

\* run_escalator, line 81-112: the frame it returns when no column is missing
run_escalator(df, short_w, long_w) ==
    LET Line_Fast == RollingMean(df.Close, short_w)
        Line_Slow == RollingMean(df.Close, long_w)
        kl_max    == [t \in 1..NBars(df) |-> Maximum(Line_Fast[t], Line_Slow[t])]
        kl_min    == [t \in 1..NBars(df) |-> Minimum(Line_Fast[t], Line_Slow[t])]
        cur       == kl_range_cur(df)
        pre       == kl_range_pre(df)
        buy       == [t \in 1..NBars(df) |-> cond_buy(df.Close[t], kl_max[t], pre[t], cur[t])]
        sell      == [t \in 1..NBars(df) |-> cond_sell(df.Close[t], kl_min[t], pre[t], cur[t])]
        Raw       == Select(buy, sell)
        Signal    == FillNa(FFill(Raw), Num(0))
        Position  == Diff(Signal)
    IN  [Close |-> df.Close, High |-> df.High, Low |-> df.Low,
         Line_Fast |-> Line_Fast, Line_Slow |-> Line_Slow,
         kl_max |-> kl_max, kl_min |-> kl_min,
         kl_range_cur |-> cur, kl_range_pre |-> pre,
         Raw_Signal |-> Raw, Signal |-> Signal, Position |-> Position]

\* ------------------------------------------------------------ plot_chart
\* plot_chart, line 168-169: the bars marked as buy and as sell
buy_rows(df) == {t \in 1..NBars(df) : Eq(df.Position[t], Num(1))}
sell_rows(df) == {t \in 1..NBars(df) : Eq(df.Position[t], Num(0 - 1))}

SetMin(S) == CHOOSE x \in S : \A y \in S : x =< y
SetMax(S) == CHOOSE x \in S : \A y \in S : x >= y

\* the pairing loop taking the last later sell instead of the first
pair_trades_last_sell(df) ==
    LET buy  == buy_rows(df)
        sell == sell_rows(df)
        subsequent_sells(bd) == {sd \in sell : sd > bd}
    IN  {[bd |-> bd, sd |-> SetMax(subsequent_sells(bd)),
          profit |-> Ge(df.Close[SetMax(subsequent_sells(bd))], df.Close[bd])] :
            bd \in {b \in buy : subsequent_sells(b) # {}}}

\* plot_chart, line 184-195: one connecting segment per buy that has a later sell
pair_trades(df) ==
    LET buy  == buy_rows(df)
        sell == sell_rows(df)
        subsequent_sells(bd) == {sd \in sell : sd > bd}
    IN  {[bd |-> bd, sd |-> SetMin(subsequent_sells(bd)),
          profit |-> Ge(df.Close[SetMin(subsequent_sells(bd))], df.Close[bd])] :
            bd \in {b \in buy : subsequent_sells(b) # {}}}

\* ------------------------------------------------------------------ main
\* main, line 271 and 288: the rows with Position != 0
signal_rows(df) == {t \in 1..NBars(df) : Ne(df.Position[t], Num(0))}

\* the last-operation metric taking the first selected row instead of the last
metrics_first_row(df) ==
    LET n           == NBars(df)
        current_pos == df.Signal[n]
        idx         == signal_rows(df)
        last_op     == SetMin(idx)
        price       == df.Close[last_op]
        type        == IF Eq(df.Position[last_op], Num(1)) THEN "buy" ELSE "sell"
    IN  IF idx = {} THEN [status |-> Eq(current_pos, Num(1)), kind |-> "none"]
        ELSE IF Eq(current_pos, Num(1))
        THEN [status |-> TRUE, kind |-> "pnl", date |-> last_op, type |-> type,
              pnl |-> Mul(Div(Sub(df.Close[n], price), price), Num(100))]
        ELSE [status |-> FALSE, kind |-> "last_op", date |-> last_op, type |-> type]

\* main, line 260-281: the status metric and the last-operation metric
metrics(df) ==
    LET n           == NBars(df)
        current_pos == df.Signal[n]
        idx         == signal_rows(df)
        last_op     == SetMax(idx)
        price       == df.Close[last_op]
        type        == IF Eq(df.Position[last_op], Num(1)) THEN "buy" ELSE "sell"
    IN  IF idx = {} THEN [status |-> Eq(current_pos, Num(1)), kind |-> "none"]
        ELSE IF Eq(current_pos, Num(1))
        THEN [status |-> TRUE, kind |-> "pnl", date |-> last_op, type |-> type,
              pnl |-> Mul(Div(Sub(df.Close[n], price), price), Num(100))]
        ELSE [status |-> FALSE, kind |-> "last_op", date |-> last_op, type |-> type]

\* main, line 287-302: the signal record table, or the no-signal notice
signal_table(df) ==
    LET signals == signal_rows(df)
        op(t) == IF Eq(df.Position[t], Num(1)) THEN "buy"
                 ELSE IF Eq(df.Position[t], Num(0 - 1)) THEN "sell" ELSE "nan"
    IN  IF signals # {} THEN {[date |-> t, op |-> op(t)] : t \in signals}
        ELSE {[date |-> 0, op |-> "no signals"]}

\* --------------------------------------------------------------- updaters
\* update_data.py, line 81-91: High and Low are backfilled with Close
update_data_frame(df) ==
    [Close |-> df.Close,
     High  |-> IF "High" \in DOMAIN df THEN df.High ELSE df.Close,
     Low   |-> IF "Low" \in DOMAIN df THEN df.Low ELSE df.Close]

\* daily_update.py, line 33-42: only the date and the close are kept
daily_update_frame(df) == [Close |-> df.Close]

\* ------------------------------------------------------------------ state
VARIABLES
    raw,        \* the frame an updater fetched, Nothing once the updater returned
    csv,        \* the data file the dashboard reads, NoFile before it is written
    engine_df,  \* StrategyEngine.df
    strategy,   \* the strategy selected in the sidebar, with its two windows
    df_res,     \* the frame the strategy returned, NoFrame if none
    shown,      \* what main displayed after the strategy ran
    pc

vars == <<raw, csv, engine_df, strategy, df_res, shown, pc>>

NoFile == [nofile |-> TRUE]
NoFrame == [noframe |-> TRUE]
Nothing == [nothing |-> TRUE]

\* ----------------------------------------------------------------- inputs
\* the price levels the fetched series are drawn from
Prices == {1, 2}
CloseCells == {NaN} \cup {Num(p) : p \in Prices}

\* a source that reports only the close (a missing value is NaN)
CloseOnlyFrames ==
    {[Close |-> c] : c \in UNION {[1..n -> CloseCells] : n \in 0..MaxBars}}

\* a source that reports the range: the close sits at the top of the bar
\* (Low < Close = High), at its bottom (Low = Close < High), or the bar is
\* flat (Low = Close = High)
Shapes == {"top", "bottom", "flat"}
Bars == [Close : Prices, shape : Shapes]

FrameOfBars(bs) ==
    [Close |-> [t \in 1..Len(bs) |-> Num(bs[t].Close)],
     High  |-> [t \in 1..Len(bs) |->
                  Num(IF bs[t].shape = "bottom" THEN bs[t].Close + 1 ELSE bs[t].Close)],
     Low   |-> [t \in 1..Len(bs) |->
                  Num(IF bs[t].shape = "top" THEN bs[t].Close - 1 ELSE bs[t].Close)]]

RangeFrames ==
    {FrameOfBars(bs) : bs \in UNION {[1..n -> Bars] : n \in 1..MaxBars}}

\* the window lengths the sidebar inputs are drawn from
Windows == {1, 2}

\* ---------------------------------------------------------------- actions
\* StrategyEngine.__init__: the engine keeps its own copy of the loaded frame
engine_init(df) == df

\* the column check placed after the moving averages, handing back the partial
\* frame instead of stopping
escalator_outcome_partial(df, short_w, long_w) ==
    IF missing_cols(df) # {}
    THEN [stopped |-> FALSE, frame |-> run_double_ma(df, short_w, long_w)]
    ELSE [stopped |-> FALSE, frame |-> run_escalator(df, short_w, long_w)]

\* run_escalator as main sees it: st.stop() ends the run before anything is
\* computed, otherwise the frame is returned
escalator_outcome(df, short_w, long_w) ==
    IF missing_cols(df) # {}
    THEN [stopped |-> TRUE, frame |-> NoFrame]
    ELSE [stopped |-> FALSE, frame |-> run_escalator(df, short_w, long_w)]

\* main, line 260-302: everything displayed once a frame was returned
show(df) == [metrics |-> metrics(df), trades |-> pair_trades(df),
             table |-> signal_table(df)]

Init ==
    /\ raw \in CloseOnlyFrames \cup RangeFrames
    /\ csv = NoFile
    /\ engine_df = Nothing
    /\ strategy = Nothing
    /\ df_res = NoFrame
    /\ shown = Nothing
    /\ pc = "fetched"

\* update_data.py: update_data_akshare for one asset; an empty fetch is skipped
UpdateData ==
    /\ pc = "fetched"
    /\ csv' = IF NBars(raw) = 0 THEN NoFile ELSE update_data_frame(raw)
    /\ raw' = Nothing
    /\ pc' = "saved"
    /\ UNCHANGED <<engine_df, strategy, df_res, shown>>

\* daily_update.py: update_data_akshare for one asset; an empty fetch is skipped
DailyUpdate ==
    /\ pc = "fetched"
    /\ csv' = IF NBars(raw) = 0 THEN NoFile ELSE daily_update_frame(raw)
    /\ raw' = Nothing
    /\ pc' = "saved"
    /\ UNCHANGED <<engine_df, strategy, df_res, shown>>

\* main, line 229-234: no data file, main returns after the error message
MainNoData ==
    /\ pc = "saved"
    /\ csv = NoFile
    /\ shown' = [error |-> "no file"]
    /\ pc' = "nodata"
    /\ UNCHANGED <<raw, csv, engine_df, strategy, df_res>>

\* main with the double moving average selected
MainDoubleMA ==
    /\ pc = "saved"
    /\ csv # NoFile
    /\ \E short_w \in Windows, long_w \in Windows :
        /\ strategy' = [name |-> "double_ma", short_w |-> short_w, long_w |-> long_w]
        /\ engine_df' = engine_init(csv)
        /\ df_res' = run_double_ma(engine_init(csv), short_w, long_w)
        /\ shown' = show(df_res')
    /\ pc' = "done"
    /\ UNCHANGED <<raw, csv>>

\* main with the escalator selected
MainEscalator ==
    /\ pc = "saved"
    /\ csv # NoFile
    /\ \E short_w \in Windows, long_w \in Windows :
        LET out == escalator_outcome(engine_init(csv), short_w, long_w)
        IN  /\ strategy' = [name |-> "escalator", short_w |-> short_w, long_w |-> long_w]
            /\ engine_df' = engine_init(csv)
            /\ df_res' = out.frame
            /\ IF out.stopped
               THEN shown' = [error |-> "missing columns"] /\ pc' = "stopped"
               ELSE shown' = show(df_res') /\ pc' = "done"
    /\ UNCHANGED <<raw, csv>>

Next ==
    \/ UpdateData
    \/ DailyUpdate
    \/ MainNoData
    \/ MainDoubleMA
    \/ MainEscalator

Spec == Init /\ [][Next]_vars

\* ================================================================ claims
Done == pc = "done"
DoneMA == pc = "done" /\ strategy.name = "double_ma"
DoneEsc == pc = "done" /\ strategy.name = "escalator"
Bar == 1..NBars(df_res)

\* two cells hold the same value: both NaN, or the same number
SameCell(a, b) == (~IsNum(a) /\ ~IsNum(b)) \/ Eq(a, b)

Long(t) == Eq(df_res.Signal[t], Num(1))
Flat(t) == Eq(df_res.Signal[t], Num(0))
Enters == {t \in Bar : Eq(df_res.Position[t], Num(1))}
Exits == {t \in Bar : Eq(df_res.Position[t], Num(0 - 1))}

\* ---------------------------------------------------------------- C6
\* the window of w bars ending at bar t, stated on the engine's input
HasWindow(t, w) == t >= w /\ \A i \in (t - w + 1)..t : IsNum(engine_df.Close[i])
RECURSIVE CloseSum(_, _)
CloseSum(t, w) == IF w = 0 THEN 0 ELSE engine_df.Close[t][1] + CloseSum(t - 1, w - 1)
\* mean of the short window > mean of the long window, in whole numbers
FastAboveSlow(t) ==
    /\ HasWindow(t, strategy.short_w)
    /\ HasWindow(t, strategy.long_w)
    /\ CloseSum(t, strategy.short_w) * strategy.long_w
         > CloseSum(t, strategy.long_w) * strategy.short_w

\* C6: crossover purity. In the frame of run_double_ma the Signal of every bar
\* is 1 exactly when both moving averages are defined at that bar (the window
\* is full and holds no NaN close) and the fast one is strictly above the slow
\* one, and 0 otherwise (tie, or a line undefined); it is a function of that
\* bar's two lines alone.
C6_CrossoverPurity ==
    DoneMA =>
        \A t \in Bar :
            /\ IsNum(df_res.Line_Fast[t]) <=> HasWindow(t, strategy.short_w)
            /\ IsNum(df_res.Line_Slow[t]) <=> HasWindow(t, strategy.long_w)
            /\ Long(t) <=> FastAboveSlow(t)
            /\ Flat(t) <=> ~FastAboveSlow(t)

\* a run that shows a Long bar, a tie of two defined lines, and an undefined
\* line caused by a NaN close inside a window that is otherwise full
C6_Witness ==
    /\ DoneMA
    /\ \E t \in Bar : Long(t)
    /\ \E t \in Bar : Eq(df_res.Line_Fast[t], df_res.Line_Slow[t]) /\ Flat(t)
    /\ \E t \in Bar : t >= strategy.long_w /\ t >= strategy.short_w
                      /\ ~IsNum(df_res.Line_Slow[t]) /\ Flat(t)
    /\ \E t \in Bar : t > 1 /\ Long(t - 1) /\ Flat(t)

\* ---------------------------------------------------------------- C1
\* C1: position derivation. In the returned frame Position[t] is
\* Signal[t] - Signal[t-1] for every bar after the first and is no event at
\* the first bar: the first bar is never among the rows selected with
\* Position != 0 (the last-operation metric, the signal record table), so a
\* run with no Enter and no Exit selects no row at all.
C1_FirstBarIsNoEvent ==
    Done =>
        /\ \A t \in Bar \ {1} :
              SameCell(df_res.Position[t], Sub(df_res.Signal[t], df_res.Signal[t - 1]))
        /\ ~Eq(df_res.Position[1], Num(1)) /\ ~Eq(df_res.Position[1], Num(0 - 1))
        /\ \A r \in shown.table : r.date # 1
        /\ shown.metrics.kind # "none" => shown.metrics.date # 1
        /\ (Enters = {} /\ Exits = {}) =>
              /\ shown.metrics.kind = "none"
              /\ shown.table = {[date |-> 0, op |-> "no signals"]}

\* a run with no Enter and no Exit whose table and last-operation metric
\* nevertheless show the first bar
C1_FirstBarShown ==
    /\ Done
    /\ Enters = {} /\ Exits = {}
    /\ shown.table = {[date |-> 1, op |-> "nan"]}
    /\ shown.metrics.kind = "last_op" /\ shown.metrics.date = 1
    /\ shown.metrics.type = "sell"

\* ---------------------------------------------------------------- C2
\* the position of the close inside the range of bar b of the engine's input,
\* NaN for a bar before the series or a bar whose High equals its Low
BarRatio(b) ==
    IF b < 1 THEN NaN
    ELSE Div(Sub(engine_df.Close[b], engine_df.Low[b]),
             ReplaceZero(Sub(engine_df.High[b], engine_df.Low[b])))

\* C2: single-bar ratios. In the frame of run_escalator kl_range_cur[t] is the
\* ratio of bar t-1 and kl_range_pre[t] the ratio of bar t-2, every term of a
\* ratio taken from that one bar; the ratio is undefined exactly when that
\* bar's High equals its Low (or the bar does not exist).
C2_SingleBarRatios ==
    DoneEsc =>
        \A t \in Bar :
            /\ SameCell(df_res.kl_range_cur[t], BarRatio(t - 1))
            /\ SameCell(df_res.kl_range_pre[t], BarRatio(t - 2))

\* ---------------------------------------------------------------- C3
\* the triggers of bar t, read off the returned frame
BuyAt(t) == cond_buy(df_res.Close[t], df_res.kl_max[t],
                     df_res.kl_range_pre[t], df_res.kl_range_cur[t])
SellAt(t) == cond_sell(df_res.Close[t], df_res.kl_min[t],
                       df_res.kl_range_pre[t], df_res.kl_range_cur[t])
ZeroWidth(b) == Eq(engine_df.High[b], engine_df.Low[b])

\* C3: zero-width-bar safety. For every bar b with High = Low the ratios
\* computed from it (kl_range_cur at b+1, kl_range_pre at b+2) are undefined,
\* so neither trigger fires at b+1 or at b+2.
C3_ZeroWidthBarSafety ==
    DoneEsc =>
        \A b \in Bar : ZeroWidth(b) =>
            /\ b + 1 \in Bar =>
                 ~IsNum(df_res.kl_range_cur[b + 1]) /\ ~BuyAt(b + 1) /\ ~SellAt(b + 1)
            /\ b + 2 \in Bar =>
                 ~IsNum(df_res.kl_range_pre[b + 2]) /\ ~BuyAt(b + 2) /\ ~SellAt(b + 2)

\* a Buy trigger fires two bars after a zero-width bar and opens a position
C3_BuyReadsZeroWidthBar ==
    /\ DoneEsc
    /\ \E b \in Bar : ZeroWidth(b) /\ b + 2 \in Bar /\ BuyAt(b + 2) /\ b + 2 \in Enters

\* ---------------------------------------------------------------- C4
\* the Signal a bar starts from: Flat before the first bar
SignalBefore(t) == IF t = 1 THEN Num(0) ELSE df_res.Signal[t - 1]

\* C4: the breakout Signal is a two-state automaton over the bars in order.
\* It starts Flat, turns Long only at a bar where the Buy trigger fires, turns
\* Flat only at a bar where the Sell trigger fires, and keeps the previous
\* bar's value wherever neither fires; so Position = +1 only on Buy-trigger
\* bars and Position = -1 only on Sell-trigger bars.
C4_SignalAutomaton ==
    DoneEsc =>
        \A t \in Bar :
            /\ Long(t) \/ Flat(t)
            /\ (Long(t) /\ Eq(SignalBefore(t), Num(0))) => BuyAt(t)
            /\ (Flat(t) /\ Eq(SignalBefore(t), Num(1))) => SellAt(t)
            /\ (~BuyAt(t) /\ ~SellAt(t)) => Eq(df_res.Signal[t], SignalBefore(t))
            /\ t \in Enters => BuyAt(t)
            /\ t \in Exits => SellAt(t)

\* a run that goes Flat -> Long on a Buy bar, holds, and another that returns
\* to Flat on a Sell bar: here both transitions in one run, with bars of no
\* trigger before them
C4_Witness ==
    /\ DoneEsc
    /\ \E t \in Bar : ~BuyAt(t) /\ ~SellAt(t) /\ t + 1 \in Enters /\ t + 2 \in Exits

\* a run in which a Long signal is carried over a bar with no trigger
C4_WitnessHold ==
    /\ DoneEsc
    /\ \E t \in Bar : t \in Enters /\ t + 1 \in Bar /\ ~BuyAt(t + 1) /\ ~SellAt(t + 1)
                      /\ Long(t + 1)

\* ---------------------------------------------------------------- C5
Trades == shown.trades
LaterExits(e) == {x \in Exits : x > e}

\* C5: pairing completeness. Enter and Exit events strictly alternate, starting
\* with an Enter; every segment drawn by plot_chart joins an Enter to the first
\* Exit after it; every Enter has exactly one segment or is the single trailing
\* Enter with no later Exit; no Exit ends the segments of two Enters.
C5_PairingCompleteness ==
    Done =>
        /\ \A x \in Exits : \E e \in Enters : e < x
        /\ \A e1, e2 \in Enters : e1 < e2 => \E x \in Exits : e1 < x /\ x < e2
        /\ \A x1, x2 \in Exits : x1 < x2 => \E e \in Enters : x1 < e /\ e < x2
        /\ \A tr \in Trades :
              /\ tr.bd \in Enters /\ tr.sd \in Exits /\ tr.sd > tr.bd
              /\ \A x \in Exits : x > tr.bd => tr.sd =< x
        /\ \A e \in Enters :
              \/ Cardinality({tr \in Trades : tr.bd = e}) = 1
              \/ /\ {tr \in Trades : tr.bd = e} = {}
                 /\ LaterExits(e) = {}
                 /\ \A e2 \in Enters : e2 =< e
        /\ \A tr1, tr2 \in Trades : tr1.sd = tr2.sd => tr1.bd = tr2.bd

\* two closed trades in one run
C5_Witness ==
    /\ Done
    /\ Cardinality(Trades) = 2
    /\ Cardinality(Enters) = 2 /\ Cardinality(Exits) = 2

\* a closed trade followed by a trailing Enter with no Exit
C5_WitnessOpen ==
    /\ Done
    /\ Cardinality(Trades) = 1
    /\ \E e \in Enters : LaterExits(e) = {}

\* ---------------------------------------------------------------- C7
LastBar == NBars(df_res)

\* C7: open position. When the last bar's Signal is Long, the last position
\* change main selects is an Enter, the most recent one and the only Enter
\* with no later Exit, and the unrealized P&L is that Enter's close against
\* the last bar's close; when the last bar's Signal is Flat every Enter has a
\* later Exit (and its segment).
C7_OpenPosition ==
    Done =>
        /\ Long(LastBar) =>
              /\ shown.metrics.kind = "pnl"
              /\ shown.metrics.type = "buy"
              /\ shown.metrics.date \in Enters
              /\ \A e \in Enters : e =< shown.metrics.date
              /\ {e \in Enters : LaterExits(e) = {}} = {shown.metrics.date}
              /\ SameCell(shown.metrics.pnl,
                    Frac((df_res.Close[LastBar][1] - df_res.Close[shown.metrics.date][1]) * 100,
                         df_res.Close[shown.metrics.date][1]))
              /\ IsNum(shown.metrics.pnl)
        /\ Flat(LastBar) =>
              /\ shown.metrics.kind # "pnl"
              /\ \A e \in Enters : LaterExits(e) # {}
              /\ \A e \in Enters : \E tr \in Trades : tr.bd = e
        /\ Long(LastBar) \/ Flat(LastBar)

\* a run that ends Long on an Enter made before the last bar, with a P&L
\* other than zero
C7_Witness ==
    /\ Done
    /\ Long(LastBar)
    /\ shown.metrics.date < LastBar
    /\ Ne(shown.metrics.pnl, Num(0))

\* a run that ends Long on its second Enter, after a closed trade
C7_WitnessReentry ==
    /\ Done
    /\ Long(LastBar)
    /\ Cardinality(Trades) = 1

\* a run that ends Flat after a closed trade
C7_WitnessFlat ==
    /\ DoneEsc
    /\ Flat(LastBar)
    /\ Cardinality(Trades) = 1

\* ---------------------------------------------------------------- C8
LacksRange(df) == "High" \notin DOMAIN df \/ "Low" \notin DOMAIN df
RanEscalator == pc \in {"done", "stopped"} /\ strategy.name = "escalator"

\* C8: missing-column halt. run_escalator on a series that lacks High or Low
\* stops with the missing-column error: no frame is returned, not even the
\* moving averages, and the engine's stored series is still the loaded one;
\* run_double_ma on such a series returns its full frame.
C8_MissingColumnHalts ==
    /\ RanEscalator =>
          /\ pc = "stopped" <=> LacksRange(csv)
          /\ engine_df = csv
    /\ pc = "stopped" =>
          /\ df_res = NoFrame
          /\ shown = [error |-> "missing columns"]
    /\ (DoneMA /\ LacksRange(csv)) =>
          /\ engine_df = csv
          /\ DOMAIN df_res = {"Close", "Line_Fast", "Line_Slow", "Signal", "Position"}
          /\ \A c \in DOMAIN df_res : Len(df_res[c]) = NBars(csv)
          /\ DOMAIN shown = {"metrics", "trades", "table"}

\* the escalator stopped on a close-only file of several bars
C8_Witness ==
    /\ pc = "stopped"
    /\ DOMAIN csv = {"Close"}
    /\ NBars(csv) >= 4
    /\ \E t \in 2..NBars(csv) : Gt(csv.Close[t], csv.Close[t - 1])

\* the double moving average on a close-only file, with a Long bar
C8_WitnessDoubleMA ==
    /\ DoneMA
    /\ LacksRange(csv)
    /\ \E t \in Bar : Long(t)

\* ---------------------------------------------------------------- C9
AllZeroWidth ==
    /\ ~LacksRange(engine_df)
    /\ \A t \in 1..NBars(engine_df) : SameCell(engine_df.High[t], engine_df.Low[t])

\* C9: a series whose High equals its Low at every bar (as when the updater
\* backfilled both from Close) leaves the escalator Flat at every bar, with no
\* Enter and no Exit, whatever the windows and the closes.
C9_FlatSeriesStaysFlat ==
    (DoneEsc /\ AllZeroWidth) =>
        /\ \A t \in Bar : Flat(t)
        /\ Enters = {} /\ Exits = {}
        /\ Trades = {}
        /\ shown.metrics.status = FALSE

\* a backfilled series whose close breaks above the upper band and below the
\* lower band, and still no trigger
C9_Witness ==
    /\ DoneEsc
    /\ AllZeroWidth
    /\ engine_df.High = engine_df.Close /\ engine_df.Low = engine_df.Close
    /\ \E t \in Bar : Gt(df_res.Close[t], df_res.kl_max[t])
    /\ \E t \in Bar : Lt(df_res.Close[t], df_res.kl_min[t])
    /\ \E t \in Bar : IsNum(df_res.kl_range_pre[t])

\* ---------------------------------------------------------------- C10
\* np.select with the two conditions listed in the other order
RawSellFirst(t) == IF SellAt(t) THEN Num(0) ELSE IF BuyAt(t) THEN Num(1) ELSE NaN

\* C10: the Buy and the Sell trigger never fire at the same bar, so Raw_Signal
\* is the same whichever of the two conditions np.select tests first.
C10_TriggersExclusive ==
    DoneEsc =>
        \A t \in Bar :
            /\ ~(BuyAt(t) /\ SellAt(t))
            /\ SameCell(df_res.Raw_Signal[t], RawSellFirst(t))

\* a run with a Buy bar and a Sell bar
C10_Witness ==
    /\ DoneEsc
    /\ \E t \in Bar : BuyAt(t)
    /\ \E t \in Bar : SellAt(t) /\ IsNum(df_res.Raw_Signal[t])

====
